---- MODULE Spec2Model ----
(***************************************************************************)
(* Model of the user-directory manager: the Directory Service              *)
(* (services/user_service.rs) on top of the JSON file Store                *)
(* (repositories/user_repository.rs).                                      *)
(*                                                                         *)
(* Strings are sequences of characters.  A character is a one-character    *)
(* TLA+ string; the few non-ASCII code points used are written by name     *)
(* ("U+00E9") so that their UTF-8 width and Unicode class can be stated.   *)
(***************************************************************************)
EXTENDS Integers, Sequences, FiniteSets, TLC

VARIABLES file, disk, last, procs, amap

vars == <<file, disk, last, procs, amap>>

(***************************************************************************)
(* Characters                                                              *)
(***************************************************************************)
Lower == {"a","b","c","d","e","f","g","h","i","j","k","l","m",
          "n","o","p","q","r","s","t","u","v","w","x","y","z"}
Upper == {"A","B","C","D","E","F","G","H","I","J","K","L","M",
          "N","O","P","Q","R","S","T","U","V","W","X","Y","Z"}
AsciiDigit == {"0","1","2","3","4","5","6","7","8","9"}
\* U+0663 ARABIC-INDIC DIGIT THREE is in the Unicode class Nd
UnicodeDigit == AsciiDigit \cup {"U+0663"}
\* char::is_whitespace (White_Space); U+3000 is IDEOGRAPHIC SPACE
Whitespace == {" ", "\t", "\n", "\r", "U+3000"}

\* UTF-8 width of a character: str::len counts bytes
Utf8Len(c) == IF c \in {"U+00E9", "U+0663"} THEN 2
              ELSE IF c = "U+3000" THEN 3
              ELSE 1

RECURSIVE ByteLen(_)
ByteLen(s) == IF s = <<>> THEN 0 ELSE Utf8Len(Head(s)) + ByteLen(Tail(s))

(***************************************************************************)
(* Validation: UserService::validate_email, _username, _phone, _age        *)
(***************************************************************************)
EmailLocalClass  == Lower \cup Upper \cup AsciiDigit \cup {".", "_", "%", "+", "-"}
EmailDomainClass == Lower \cup Upper \cup AsciiDigit \cup {".", "-"}
TldMinLen == 2
PhoneMinLen == 10
UsernameMinLen == 3
MaxAge == 150

\* s[a..b] lies within the character class
AllInRange(s, a, b, cls) == \A k \in a..b : s[k] \in cls

\* ^[a-zA-Z0-9._%+-]+@[a-zA-Z0-9.-]+\.[a-zA-Z]{2,}$
\* i is the position of the "@", j that of the "." before the last label
EmailRegexMatch(s) ==
    \E i \in 2..Len(s) :
        /\ s[i] = "@"
        /\ AllInRange(s, 1, i - 1, EmailLocalClass)
        /\ \E j \in (i + 2)..(Len(s) - TldMinLen) :
              /\ s[j] = "."
              /\ AllInRange(s, i + 1, j - 1, EmailDomainClass)
              /\ AllInRange(s, j + 1, Len(s), Lower \cup Upper)

\* ^\d{10,}$  (the regex crate's \d is Unicode-aware)
PhoneRegexMatch(s) == Len(s) >= PhoneMinLen /\ AllInRange(s, 1, Len(s), UnicodeDigit)

\* str::trim strips leading and trailing White_Space characters
RECURSIVE TrimStart(_)
TrimStart(s) == IF s # <<>> /\ Head(s) \in Whitespace THEN TrimStart(Tail(s)) ELSE s

RECURSIVE TrimEnd(_)
TrimEnd(s) == IF s # <<>> /\ s[Len(s)] \in Whitespace
              THEN TrimEnd(SubSeq(s, 1, Len(s) - 1)) ELSE s

trim(s) == TrimEnd(TrimStart(s))

\* each validator yields "" for Ok(()) or the UserError variant it returns
validate_email(email) == IF ~EmailRegexMatch(email) THEN "InvalidEmail" ELSE ""

validate_username(username) ==
    IF trim(username) = <<>> \/ ByteLen(username) < UsernameMinLen
    THEN "InvalidUsername" ELSE ""

validate_phone(phone) == IF ~PhoneRegexMatch(phone) THEN "InvalidPhone" ELSE ""

\* variant of validate_age: the upper bound itself is rejected
validate_age_Exclusive(age) == IF age >= MaxAge THEN "InvalidAge" ELSE ""

validate_age(age) == IF age > MaxAge THEN "InvalidAge" ELSE ""

(***************************************************************************)
(* The JSON document (serde_json on HashMap<String, User>)                 *)
(*                                                                         *)
(* A JSON object is the sequence of its members in document order; every   *)
(* string is kept as the escaped text between its quotes and every number  *)
(* as its decimal digits.  Pretty-printing only adds insignificant white   *)
(* space and is not represented.                                           *)
(***************************************************************************)
\* variant of EscapeChar: a backslash is written as it is
EscapeChar_NoBackslash(c) ==
    IF c = "\"" THEN <<"\\", "\"">>
    ELSE IF c = "\n" THEN <<"\\", "n">>
    ELSE IF c = "\r" THEN <<"\\", "r">>
    ELSE IF c = "\t" THEN <<"\\", "t">>
    ELSE <<c>>

EscapeChar(c) ==
    IF c = "\"" THEN <<"\\", "\"">>
    ELSE IF c = "\\" THEN <<"\\", "\\">>
    ELSE IF c = "\n" THEN <<"\\", "n">>
    ELSE IF c = "\r" THEN <<"\\", "r">>
    ELSE IF c = "\t" THEN <<"\\", "t">>
    ELSE <<c>>

RECURSIVE Escape(_)
Escape(s) == IF s = <<>> THEN <<>> ELSE EscapeChar(Head(s)) \o Escape(Tail(s))

UnescapeChar(c) ==
    IF c = "n" THEN "\n"
    ELSE IF c = "r" THEN "\r"
    ELSE IF c = "t" THEN "\t"
    ELSE c

RECURSIVE Unescape(_)
Unescape(t) ==
    IF t = <<>> THEN <<>>
    ELSE IF Head(t) = "\\" /\ Len(t) >= 2
         THEN <<UnescapeChar(t[2])>> \o Unescape(SubSeq(t, 3, Len(t)))
         ELSE <<Head(t)>> \o Unescape(Tail(t))

DigitChar == <<"0","1","2","3","4","5","6","7","8","9">>
DigitValue(c) == CHOOSE d \in 0..9 : DigitChar[d + 1] = c

RECURSIVE ToDigits(_)
ToDigits(n) == IF n < 10 THEN <<DigitChar[n + 1]>>
               ELSE ToDigits(n \div 10) \o <<DigitChar[(n % 10) + 1]>>

RECURSIVE FromDigits(_)
FromDigits(ds) == IF ds = <<>> THEN 0
                  ELSE 10 * FromDigits(SubSeq(ds, 1, Len(ds) - 1)) + DigitValue(ds[Len(ds)])

\* variant of SerializeUser: the email member is written from the username
SerializeUser_EmailFromUsername(u) ==
    [email |-> Escape(u.username), username |-> Escape(u.username),
     phone |-> Escape(u.phone), age |-> ToDigits(u.age)]

\* #[derive(Serialize)] on User
SerializeUser(u) ==
    [email |-> Escape(u.email), username |-> Escape(u.username),
     phone |-> Escape(u.phone), age |-> ToDigits(u.age)]

\* #[derive(Deserialize)] on User
DeserializeUser(j) ==
    [email |-> Unescape(j.email), username |-> Unescape(j.username),
     phone |-> Unescape(j.phone), age |-> FromDigits(j.age)]

EmptyUsers == [k \in {} |-> <<>>]

\* variant of Insert: an existing entry is kept (entry().or_insert)
Insert_KeepExisting(users, k, u) ==
    [x \in DOMAIN users \cup {k} |-> IF x \in DOMAIN users THEN users[x] ELSE u]

\* HashMap::insert
Insert(users, k, u) == [x \in DOMAIN users \cup {k} |-> IF x = k THEN u ELSE users[x]]

\* variant of Remove: the entry is not removed
Remove_None(users, k) == users

\* HashMap::remove
Remove(users, k) == [x \in DOMAIN users \ {k} |-> users[x]]

\* serde_json::to_string_pretty(users): the members follow the map's
\* iteration order, which `order` fixes for the keys it lists
Serialize(users, order) ==
    LET keys == SelectSeq(order, LAMBDA k : k \in DOMAIN users)
    IN  [i \in 1..Len(keys) |->
            [key |-> Escape(keys[i]), value |-> SerializeUser(users[keys[i]])]]

\* serde_json::from_str into a HashMap: members are inserted in document
\* order, a repeated key keeps the last member
RECURSIVE Deserialize(_)
Deserialize(entries) ==
    IF entries = <<>> THEN EmptyUsers
    ELSE LET n == Len(entries)
             e == entries[n]
         IN  Insert(Deserialize(SubSeq(entries, 1, n - 1)),
                    Unescape(e.key), DeserializeUser(e.value))

\* every iteration order of a key set
Orders(S) == {p \in [1..Cardinality(S) -> S] : \A i, j \in DOMAIN p : p[i] = p[j] => i = j}

(***************************************************************************)
(* The backing file and the Store (UserRepositoryImpl)                     *)
(***************************************************************************)
AbsentFile  == [kind |-> "absent",  entries |-> <<>>]
EmptyFile   == [kind |-> "empty",   entries |-> <<>>]
GarbageFile == [kind |-> "garbage", entries |-> <<>>]
JsonFile(entries) == [kind |-> "json", entries |-> entries]

\* variant of read_users: a zero-byte file is handed to the JSON parser
read_users_NoEmptyCheck(f) ==
    IF f.kind = "absent" THEN [ok |-> TRUE, err |-> "", users |-> EmptyUsers]
    ELSE IF f.kind = "json"
         THEN [ok |-> TRUE, err |-> "", users |-> Deserialize(f.entries)]
    ELSE [ok |-> FALSE, err |-> "Failed to parse JSON", users |-> EmptyUsers]

\* read_users: [ok, err, users]
read_users(f) ==
    IF f.kind = "absent" THEN [ok |-> TRUE, err |-> "", users |-> EmptyUsers]
    ELSE IF f.kind = "empty" THEN [ok |-> TRUE, err |-> "", users |-> EmptyUsers]
    ELSE IF f.kind = "json"
         THEN [ok |-> TRUE, err |-> "", users |-> Deserialize(f.entries)]
    ELSE [ok |-> FALSE, err |-> "Failed to parse JSON", users |-> EmptyUsers]

\* write_users: [ok, err, file].  fs::write creates or truncates the file and
\* then writes; on a read-only location the open fails and the file is as it
\* was, on a full disk the truncation has happened when the write fails.
write_users(f, d, users, order) ==
    IF d = "readonly" THEN [ok |-> FALSE, err |-> "Failed to write file", file |-> f]
    ELSE IF d = "full" THEN [ok |-> FALSE, err |-> "Failed to write file", file |-> EmptyFile]
    ELSE [ok |-> TRUE, err |-> "", file |-> JsonFile(Serialize(users, order))]

\* Store results: [ok, err, val, existed, file]; val is the Option<User> or
\* Vec<User> as a sequence, existed the bool of delete
StoreErr(e, f) == [ok |-> FALSE, err |-> e, val |-> <<>>, existed |-> FALSE, file |-> f]
StoreOk(v, b, f) == [ok |-> TRUE, err |-> "", val |-> v, existed |-> b, file |-> f]

\* variant of save: the file is not read, only the new entry is written
save_Overwrites(f, d, user, order) ==
    LET users == Insert(EmptyUsers, user.email, user)
        w == write_users(f, d, users, order)
    IN  IF w.ok THEN StoreOk(<<>>, FALSE, w.file) ELSE StoreErr(w.err, w.file)

\* variant of save: the map is written back without the new entry
save_WritesOld(f, d, user, order) ==
    LET r == read_users(f) IN
    IF ~r.ok THEN StoreErr(r.err, f)
    ELSE LET w == write_users(f, d, r.users, order)
         IN  IF w.ok THEN StoreOk(<<>>, FALSE, w.file) ELSE StoreErr(w.err, w.file)

save(f, d, user, order) ==
    LET r == read_users(f) IN
    IF ~r.ok THEN StoreErr(r.err, f)
    ELSE LET users == Insert(r.users, user.email, user)
             w == write_users(f, d, users, order)
         IN  IF w.ok THEN StoreOk(<<>>, FALSE, w.file) ELSE StoreErr(w.err, w.file)

\* variant of find_by_email: the first entry of the map is returned when the
\* email is not a key
find_by_email_AnyEntry(f, email) ==
    LET r == read_users(f) IN
    IF ~r.ok THEN StoreErr(r.err, f)
    ELSE IF email \in DOMAIN r.users THEN StoreOk(<<r.users[email]>>, FALSE, f)
    ELSE IF DOMAIN r.users # {}
         THEN StoreOk(<<r.users[CHOOSE k \in DOMAIN r.users : TRUE]>>, FALSE, f)
    ELSE StoreOk(<<>>, FALSE, f)

find_by_email(f, email) ==
    LET r == read_users(f) IN
    IF ~r.ok THEN StoreErr(r.err, f)
    ELSE IF email \in DOMAIN r.users THEN StoreOk(<<r.users[email]>>, FALSE, f)
    ELSE StoreOk(<<>>, FALSE, f)

\* variant of find_all: the file is not read, the map a new instance would
\* hold in memory is returned
find_all_IgnoresFile(f, order) == StoreOk(<<>>, FALSE, f)

find_all(f, order) ==
    LET r == read_users(f) IN
    IF ~r.ok THEN StoreErr(r.err, f)
    ELSE LET keys == SelectSeq(order, LAMBDA k : k \in DOMAIN r.users)
         IN  StoreOk([i \in 1..Len(keys) |-> r.users[keys[i]]], FALSE, f)

\* variant of delete: the file is rewritten only when an entry was removed
delete_SkipsWriteIfAbsent(f, d, email, order) ==
    LET r == read_users(f) IN
    IF ~r.ok THEN StoreErr(r.err, f)
    ELSE IF email \notin DOMAIN r.users THEN StoreOk(<<>>, FALSE, f)
    ELSE LET users == Remove(r.users, email)
             w == write_users(f, d, users, order)
         IN  IF w.ok THEN StoreOk(<<>>, TRUE, w.file) ELSE StoreErr(w.err, w.file)

delete(f, d, email, order) ==
    LET r == read_users(f) IN
    IF ~r.ok THEN StoreErr(r.err, f)
    ELSE LET existed == email \in DOMAIN r.users
             users == Remove(r.users, email)
             w == write_users(f, d, users, order)
         IN  IF w.ok THEN StoreOk(<<>>, existed, w.file) ELSE StoreErr(w.err, w.file)

(***************************************************************************)
(* The Directory Service (UserService)                                     *)
(*                                                                         *)
(* Service results: [ok, err, val, file, calls]; err is the UserError      *)
(* variant, val the returned User or Vec<User> as a sequence, file the     *)
(* backing file after the call and calls the Store operations invoked, in  *)
(* order.                                                                  *)
(***************************************************************************)
SvcErr(e, f, calls) == [ok |-> FALSE, err |-> e, val |-> <<>>, file |-> f, calls |-> calls]
SvcOk(v, f, calls) == [ok |-> TRUE, err |-> "", val |-> v, file |-> f, calls |-> calls]

User(email, username, phone, age) ==
    [email |-> email, username |-> username, phone |-> phone, age |-> age]

\* variant of create_validation: the phone is checked before the username
create_validation_PhoneFirst(email, username, phone, age) ==
    LET e == validate_email(email)
        u == validate_username(username)
        p == validate_phone(phone)
    IN  IF e # "" THEN e
        ELSE IF p # "" THEN p
        ELSE IF u # "" THEN u
        ELSE validate_age(age)

\* the four `?` checks opening create_user: the first error, or ""
create_validation(email, username, phone, age) ==
    LET e == validate_email(email)
        u == validate_username(username)
        p == validate_phone(phone)
    IN  IF e # "" THEN e
        ELSE IF u # "" THEN u
        ELSE IF p # "" THEN p
        ELSE validate_age(age)

\* variant of update_validation: the age is not checked
update_validation_SkipsAge(username, phone, age) ==
    LET u == validate_username(username)
        p == validate_phone(phone)
    IN  IF u # "" THEN u
        ELSE p

\* the three `?` checks opening update_user: the first error, or ""
update_validation(username, phone, age) ==
    LET u == validate_username(username)
        p == validate_phone(phone)
    IN  IF u # "" THEN u
        ELSE IF p # "" THEN p
        ELSE validate_age(age)

\* variant of create_exists: the uniqueness check never fires
create_exists_Never(lookup) == FALSE

\* `if let Ok(Some(_)) = self.repository.find_by_email(&email)`
create_exists(lookup) == lookup.ok /\ lookup.val # <<>>

\* variant of create_user: the existence lookup runs before the validation
create_user_LookupFirst(f, d, email, username, phone, age, order) ==
    LET lookup == find_by_email(f, email)
        v == create_validation(email, username, phone, age)
    IN  IF create_exists(lookup)
        THEN SvcErr("UserAlreadyExists", f, <<"find_by_email">>)
        ELSE IF v # "" THEN SvcErr(v, f, <<"find_by_email">>)
        ELSE LET user == User(email, username, phone, age)
                 s == save(f, d, user, order)
             IN  IF ~s.ok
                 THEN SvcErr("RepositoryError", s.file, <<"find_by_email", "save">>)
                 ELSE SvcOk(<<user>>, s.file, <<"find_by_email", "save">>)

create_user(f, d, email, username, phone, age, order) ==
    LET v == create_validation(email, username, phone, age) IN
    IF v # "" THEN SvcErr(v, f, <<>>)
    ELSE LET lookup == find_by_email(f, email) IN
         IF create_exists(lookup)
         THEN SvcErr("UserAlreadyExists", f, <<"find_by_email">>)
         ELSE LET user == User(email, username, phone, age)
                  s == save(f, d, user, order)
              IN  IF ~s.ok
                  THEN SvcErr("RepositoryError", s.file, <<"find_by_email", "save">>)
                  ELSE SvcOk(<<user>>, s.file, <<"find_by_email", "save">>)

\* variant of update_user: the email is validated like the other fields
update_user_ValidatesEmail(f, d, email, username, phone, age, order) ==
    LET v == create_validation(email, username, phone, age) IN
    IF v # "" THEN SvcErr(v, f, <<>>)
    ELSE LET lookup == find_by_email(f, email) IN
         IF ~lookup.ok THEN SvcErr("RepositoryError", f, <<"find_by_email">>)
         ELSE IF lookup.val = <<>> THEN SvcErr("UserNotFound", f, <<"find_by_email">>)
         ELSE LET user == User(email, username, phone, age)
                  s == save(f, d, user, order)
              IN  IF ~s.ok
                  THEN SvcErr("RepositoryError", s.file, <<"find_by_email", "save">>)
                  ELSE SvcOk(<<user>>, s.file, <<"find_by_email", "save">>)

\* variant of update_user: no existence check, the record is upserted
update_user_NoCheck(f, d, email, username, phone, age, order) ==
    LET v == update_validation(username, phone, age) IN
    IF v # "" THEN SvcErr(v, f, <<>>)
    ELSE LET user == User(email, username, phone, age)
             s == save(f, d, user, order)
         IN  IF ~s.ok
             THEN SvcErr("RepositoryError", s.file, <<"save">>)
             ELSE SvcOk(<<user>>, s.file, <<"save">>)

update_user(f, d, email, username, phone, age, order) ==
    LET v == update_validation(username, phone, age) IN
    IF v # "" THEN SvcErr(v, f, <<>>)
    ELSE LET lookup == find_by_email(f, email) IN
         IF ~lookup.ok THEN SvcErr("RepositoryError", f, <<"find_by_email">>)
         ELSE IF lookup.val = <<>> THEN SvcErr("UserNotFound", f, <<"find_by_email">>)
         ELSE LET user == User(email, username, phone, age)
                  s == save(f, d, user, order)
              IN  IF ~s.ok
                  THEN SvcErr("RepositoryError", s.file, <<"find_by_email", "save">>)
                  ELSE SvcOk(<<user>>, s.file, <<"find_by_email", "save">>)

get_user(f, email) ==
    LET lookup == find_by_email(f, email) IN
    IF ~lookup.ok THEN SvcErr("RepositoryError", f, <<"find_by_email">>)
    ELSE IF lookup.val = <<>> THEN SvcErr("UserNotFound", f, <<"find_by_email">>)
    ELSE SvcOk(lookup.val, f, <<"find_by_email">>)

\* variant of list_users: records whose email fails validate_email are left out
list_users_ValidOnly(f, order) ==
    LET r == find_all(f, order) IN
    IF ~r.ok THEN SvcErr("RepositoryError", f, <<"find_all">>)
    ELSE SvcOk(SelectSeq(r.val, LAMBDA u : validate_email(u.email) = ""), f, <<"find_all">>)

list_users(f, order) ==
    LET r == find_all(f, order) IN
    IF ~r.ok THEN SvcErr("RepositoryError", f, <<"find_all">>)
    ELSE SvcOk(r.val, f, <<"find_all">>)

\* variant of delete_user: the bool returned by the Store is ignored
delete_user_IgnoresExisted(f, d, email, order) ==
    LET r == delete(f, d, email, order) IN
    IF ~r.ok THEN SvcErr("RepositoryError", r.file, <<"delete">>)
    ELSE SvcOk(<<>>, r.file, <<"delete">>)

delete_user(f, d, email, order) ==
    LET r == delete(f, d, email, order) IN
    IF ~r.ok THEN SvcErr("RepositoryError", r.file, <<"delete">>)
    ELSE IF ~r.existed THEN SvcErr("UserNotFound", r.file, <<"delete">>)
    ELSE SvcOk(<<>>, r.file, <<"delete">>)

(***************************************************************************)
(* Inputs                                                                  *)
(***************************************************************************)
EmailPool ==
    << <<"a","@","b",".","c","o">>,
       <<"b","a","d","-","e","m","a","i","l">>,
       <<"x",".","y","@","z","-","w",".","o","r","g">>,
       <<"a","@","b",".","c">>,
       <<"@","b",".","c","o">> >>

UsernamePool ==
    << <<"b","o","b">>,
       <<"a","l">>,
       <<"a","\"","\\","n">>,
       <<" "," "," ">>,
       <<" "," ","a">>,
       <<"U+00E9","a">> >>

PhonePool ==
    << <<"1","2","3","4","5","6","7","8","9","0">>,
       <<"1","2","3">>,
       <<"0","9","8","7","6","5","4","3","2","1","0">>,
       <<"1","2","3","4","5","-","6","7","8","9","0">>,
       <<"1","2","3","4","5","6","7","8","9","0","\n">> >>

\* age is a u32 that the code only compares, stores and prints; 2147483647
\* is the largest value a TLC integer holds
AgePool == <<30, 200, 150, 151, 0, 2147483647>>

NumEmails == 3
NumUsernames == 3
NumPhones == 3
NumAges == 3

Emails    == {EmailPool[i] : i \in 1..NumEmails}
Usernames == {UsernamePool[i] : i \in 1..NumUsernames}
Phones    == {PhonePool[i] : i \in 1..NumPhones}
Ages      == {AgePool[i] : i \in 1..NumAges}

DiskModes == {"ok", "readonly", "full"}

\* the keys an operation on `f` with argument `email` can write
KeysOf(f) == DOMAIN read_users(f).users

(***************************************************************************)
(* State machine                                                           *)
(*   file : the backing JSON file                                          *)
(*   disk : whether writes to it succeed                                   *)
(*   last : the call whose result main holds: operation, arguments, the    *)
(*          file before it, the result and the Store operations it         *)
(*          invoked; NoCall between two runs of the program                *)
(*   procs: the calls of two processes that run on the same file at once,  *)
(*          each at one of its steps (all idle when calls run one by one)  *)
(*   amap : an in-memory map from email to record that is given the same   *)
(*          Store calls as the file (left empty where it is not compared)  *)
(***************************************************************************)
Procs == {1, 2}

\* a process between calls.  pc is the step the call is at, arg the record it
\* was given (only the email for a delete), snap the map it read and out the
\* map it writes; sawLook, sawRead and second record whether the other
\* process's write was complete when this call looked up, read and wrote
IdleProc ==
    [pc |-> "idle", op |-> "none", arg |-> [email |-> <<>>, username |-> <<>>, phone |-> <<>>, age |-> 0],
     snap |-> [k \in {} |-> <<>>], out |-> [k \in {} |-> <<>>],
     ok |-> TRUE, err |-> "", existed |-> FALSE, wrote |-> FALSE,
     sawLook |-> FALSE, sawRead |-> FALSE, second |-> FALSE]

NoCall == [op |-> "none", email |-> <<>>, username |-> <<>>, phone |-> <<>>, age |-> 0,
           pre |-> AbsentFile, disk |-> "ok",
           ok |-> TRUE, err |-> "", val |-> <<>>, existed |-> FALSE, calls |-> <<>>]

Call(op, email, username, phone, age, r) ==
    [op |-> op, email |-> email, username |-> username, phone |-> phone, age |-> age,
     pre |-> file, disk |-> disk,
     ok |-> r.ok, err |-> r.err, val |-> r.val, existed |-> FALSE, calls |-> r.calls]

Idle == last.op = "none"

Init ==
    /\ file \in {AbsentFile, EmptyFile}
    /\ disk = "ok"
    /\ last = NoCall
    /\ procs = [p \in Procs |-> IdleProc]
    /\ amap = EmptyUsers

CreateUser ==
    /\ Idle
    /\ \E email \in Emails, username \in Usernames, phone \in Phones, age \in Ages :
       \E order \in Orders(KeysOf(file) \cup {email}) :
           LET r == create_user(file, disk, email, username, phone, age, order) IN
           /\ file' = r.file
           /\ last' = Call("create_user", email, username, phone, age, r)
           /\ UNCHANGED <<disk, procs, amap>>

UpdateUser ==
    /\ Idle
    /\ \E email \in Emails, username \in Usernames, phone \in Phones, age \in Ages :
       \E order \in Orders(KeysOf(file) \cup {email}) :
           LET r == update_user(file, disk, email, username, phone, age, order) IN
           /\ file' = r.file
           /\ last' = Call("update_user", email, username, phone, age, r)
           /\ UNCHANGED <<disk, procs, amap>>

GetUser ==
    /\ Idle
    /\ \E email \in Emails :
           LET r == get_user(file, email) IN
           /\ file' = r.file
           /\ last' = Call("get_user", email, <<>>, <<>>, 0, r)
           /\ UNCHANGED <<disk, procs, amap>>

ListUsers ==
    /\ Idle
    /\ \E order \in Orders(KeysOf(file)) :
           LET r == list_users(file, order) IN
           /\ file' = r.file
           /\ last' = Call("list_users", <<>>, <<>>, <<>>, 0, r)
           /\ UNCHANGED <<disk, procs, amap>>

DeleteUser ==
    /\ Idle
    /\ \E email \in Emails :
       \E order \in Orders(KeysOf(file)) :
           LET r == delete_user(file, disk, email, order) IN
           /\ file' = r.file
           /\ last' = Call("delete_user", email, <<>>, <<>>, 0, r)
           /\ UNCHANGED <<disk, procs, amap>>

\* the environment: the file is damaged, truncated or removed from outside
\* the program, and the location becomes read-only, full or writable again
EnvFile ==
    /\ Idle
    /\ file' \in {GarbageFile, EmptyFile, AbsentFile}
    /\ file' # file
    /\ UNCHANGED <<disk, last, procs, amap>>

EnvDisk ==
    /\ Idle
    /\ disk' \in DiskModes
    /\ disk' # disk
    /\ UNCHANGED <<file, last, procs, amap>>

\* main reports the result of the call and the process ends
Report ==
    /\ ~Idle
    /\ last' = NoCall
    /\ UNCHANGED <<file, disk, procs, amap>>

Next ==
    \/ CreateUser
    \/ UpdateUser
    \/ GetUser
    \/ ListUsers
    \/ DeleteUser
    \/ EnvFile
    \/ EnvDisk
    \/ Report

Spec == Init /\ [][Next]_vars

(***************************************************************************)
(* The Store used directly (UserRepository trait on UserRepositoryImpl)    *)
(***************************************************************************)
NumStoreEmails == 2

\* records handed to save: the Store validates nothing
StoreEmails == {EmailPool[i] : i \in 1..NumStoreEmails}
StoreUsers ==
    {User(e, u, PhonePool[1], AgePool[1]) :
        e \in StoreEmails, u \in {UsernamePool[1], UsernamePool[3]}}

StoreCall(op, email, username, phone, age, r) ==
    [op |-> op, email |-> email, username |-> username, phone |-> phone, age |-> age,
     pre |-> file, disk |-> disk,
     ok |-> r.ok, err |-> r.err, val |-> r.val, existed |-> r.existed, calls |-> <<>>]

StoreSave ==
    /\ Idle
    /\ \E u \in StoreUsers :
       \E order \in Orders(KeysOf(file) \cup {u.email}) :
           LET r == save(file, disk, u, order) IN
           /\ file' = r.file
           /\ last' = StoreCall("save", u.email, u.username, u.phone, u.age, r)
           /\ UNCHANGED <<disk, procs, amap>>

StoreFindByEmail ==
    /\ Idle
    /\ \E email \in StoreEmails :
           LET r == find_by_email(file, email) IN
           /\ file' = r.file
           /\ last' = StoreCall("find_by_email", email, <<>>, <<>>, 0, r)
           /\ UNCHANGED <<disk, procs, amap>>

StoreFindAll ==
    /\ Idle
    /\ \E order \in Orders(KeysOf(file)) :
           LET r == find_all(file, order) IN
           /\ file' = r.file
           /\ last' = StoreCall("find_all", <<>>, <<>>, <<>>, 0, r)
           /\ UNCHANGED <<disk, procs, amap>>

StoreDelete ==
    /\ Idle
    /\ \E email \in StoreEmails :
       \E order \in Orders(KeysOf(file)) :
           LET r == delete(file, disk, email, order) IN
           /\ file' = r.file
           /\ last' = StoreCall("delete", email, <<>>, <<>>, 0, r)
           /\ UNCHANGED <<disk, procs, amap>>

StoreNext ==
    \/ StoreSave
    \/ StoreFindByEmail
    \/ StoreFindAll
    \/ StoreDelete
    \/ EnvFile
    \/ EnvDisk
    \/ Report

StoreSpec == Init /\ [][StoreNext]_vars

(***************************************************************************)
(* The Service called with every short username over a small alphabet      *)
(***************************************************************************)
MaxNameLen == 3

\* a letter, a space and a two-byte letter
NameAlphabet == {"a", " ", "U+00E9"}
Names == UNION {[1..n -> NameAlphabet] : n \in 0..MaxNameLen}

NameCreateUser ==
    /\ Idle
    /\ \E email \in StoreEmails, username \in Names :
       \E order \in Orders(KeysOf(file) \cup {email}) :
           LET r == create_user(file, disk, email, username, PhonePool[1], AgePool[1], order) IN
           /\ file' = r.file
           /\ last' = Call("create_user", email, username, PhonePool[1], AgePool[1], r)
           /\ UNCHANGED <<disk, procs, amap>>

NameUpdateUser ==
    /\ Idle
    /\ \E email \in StoreEmails, username \in Names :
       \E order \in Orders(KeysOf(file) \cup {email}) :
           LET r == update_user(file, disk, email, username, PhonePool[1], AgePool[1], order) IN
           /\ file' = r.file
           /\ last' = Call("update_user", email, username, PhonePool[1], AgePool[1], r)
           /\ UNCHANGED <<disk, procs, amap>>

NameNext ==
    \/ NameCreateUser
    \/ NameUpdateUser
    \/ Report

NameSpec == Init /\ [][NameNext]_vars

(***************************************************************************)
(* The Service called with every age up to just above the maximum, and     *)
(* with the largest age the pool holds                                     *)
(***************************************************************************)
AgeMargin == 2

AgeRange == (0..(MaxAge + AgeMargin)) \cup {AgePool[Len(AgePool)]}

AgeCreateUser ==
    /\ Idle
    /\ \E age \in AgeRange :
       \E order \in Orders(KeysOf(file) \cup {EmailPool[1]}) :
           LET r == create_user(file, disk, EmailPool[1], UsernamePool[1], PhonePool[1], age, order) IN
           /\ file' = r.file
           /\ last' = Call("create_user", EmailPool[1], UsernamePool[1], PhonePool[1], age, r)
           /\ UNCHANGED <<disk, procs, amap>>

AgeUpdateUser ==
    /\ Idle
    /\ \E age \in AgeRange :
       \E order \in Orders(KeysOf(file) \cup {EmailPool[1]}) :
           LET r == update_user(file, disk, EmailPool[1], UsernamePool[1], PhonePool[1], age, order) IN
           /\ file' = r.file
           /\ last' = Call("update_user", EmailPool[1], UsernamePool[1], PhonePool[1], age, r)
           /\ UNCHANGED <<disk, procs, amap>>

AgeNext ==
    \/ AgeCreateUser
    \/ AgeUpdateUser
    \/ Report

AgeSpec == Init /\ [][AgeNext]_vars

(***************************************************************************)
(* The command line (main and UserCommand)                                 *)
(*                                                                         *)
(* argv is the argument list after the program name: the subcommand word   *)
(* followed by its parameters, each a string of characters.                *)
(***************************************************************************)
CreateArgc == 4
UpdateArgc == 4
GetArgc == 1
DeleteArgc == 1

U32MaxDigits == <<"4","2","9","4","9","6","7","2","9","5">>

RECURSIVE StripZeros(_)
StripZeros(ds) == IF Len(ds) > 1 /\ Head(ds) = "0" THEN StripZeros(Tail(ds)) ELSE ds

\* a < b for two digit strings of the same length
RECURSIVE DigitsLess(_, _)
DigitsLess(a, b) ==
    IF a = <<>> THEN FALSE
    ELSE IF Head(a) # Head(b) THEN DigitValue(Head(a)) < DigitValue(Head(b))
    ELSE DigitsLess(Tail(a), Tail(b))

\* str::parse::<u32>: an optional "+", then one or more ASCII digits whose
\* value fits 32 bits
parse_u32(s) ==
    LET body == IF s # <<>> /\ Head(s) = "+" THEN Tail(s) ELSE s
        digits == StripZeros(body)
    IN  IF body = <<>> \/ ~AllInRange(body, 1, Len(body), AsciiDigit)
        THEN [ok |-> FALSE, val |-> 0]
        ELSE IF \/ Len(digits) > Len(U32MaxDigits)
                \/ Len(digits) = Len(U32MaxDigits) /\ DigitsLess(U32MaxDigits, digits)
        THEN [ok |-> FALSE, val |-> 0]
        ELSE [ok |-> TRUE, val |-> FromDigits(digits)]

\* what a run of main did: the error it printed ("" if none), the Service
\* error inside it, whether print_usage ran, the Service operation invoked
\* ("none" if none), the Store operations that invoked, and the file left
CmdErr(text, f) ==
    [err |-> text, cause |-> "", usage |-> FALSE, service |-> "none", calls |-> <<>>, file |-> f]
CmdDone(text, service, r) ==
    [err |-> IF r.ok THEN "" ELSE text, cause |-> r.err, usage |-> FALSE,
     service |-> service, calls |-> r.calls, file |-> r.file]
PrintUsage(f) ==
    [err |-> "", cause |-> "", usage |-> TRUE, service |-> "none", calls |-> <<>>, file |-> f]

command_create(f, d, args, order) ==
    IF Len(args) # CreateArgc
    THEN CmdErr("Usage: create <email> <username> <phone> <age>", f)
    ELSE LET age == parse_u32(args[4]) IN
         IF ~age.ok THEN CmdErr("Invalid age format", f)
         ELSE CmdDone("Failed to create user", "create_user",
                      create_user(f, d, args[1], args[2], args[3], age.val, order))

command_update(f, d, args, order) ==
    IF Len(args) # UpdateArgc
    THEN CmdErr("Usage: update <email> <username> <phone> <age>", f)
    ELSE LET age == parse_u32(args[4]) IN
         IF ~age.ok THEN CmdErr("Invalid age format", f)
         ELSE CmdDone("Failed to update user", "update_user",
                      update_user(f, d, args[1], args[2], args[3], age.val, order))

command_list(f, order) ==
    CmdDone("Failed to list users", "list_users", list_users(f, order))

command_get(f, args) ==
    IF Len(args) # GetArgc
    THEN CmdErr("Usage: get <email>", f)
    ELSE CmdDone("Failed to get user", "get_user", get_user(f, args[1]))

command_delete(f, d, args, order) ==
    IF Len(args) # DeleteArgc
    THEN CmdErr("Usage: delete <email>", f)
    ELSE CmdDone("Failed to delete user", "delete_user", delete_user(f, d, args[1], order))

main(f, d, argv, order) ==
    IF argv = <<>> THEN PrintUsage(f)
    ELSE LET args == Tail(argv) IN
         IF argv[1] = "create" THEN command_create(f, d, args, order)
         ELSE IF argv[1] = "update" THEN command_update(f, d, args, order)
         ELSE IF argv[1] = "list" THEN command_list(f, order)
         ELSE IF argv[1] = "get" THEN command_get(f, args)
         ELSE IF argv[1] = "delete" THEN command_delete(f, d, args, order)
         ELSE PrintUsage(f)

MaxArgs == 5

\* words given as parameters: an email, a phone number and an age; each also
\* stands in the other positions (the email is a username and an age that
\* does not parse, the phone number an age above the maximum)
ArgWords == {EmailPool[1], PhonePool[1], ToDigits(AgePool[1])}
ArgLists == UNION {[1..n -> ArgWords] : n \in 0..MaxArgs}

CliCall(argv, r) ==
    [op |-> "main", argv |-> argv, pre |-> file, disk |-> disk,
     err |-> r.err, cause |-> r.cause, usage |-> r.usage,
     service |-> r.service, calls |-> r.calls]

\* the order in which the entries of the map are written, if they are
MainOrders(argv) ==
    Orders(KeysOf(file) \cup
           (IF Len(argv) > 1 /\ argv[1] \in {"create", "update"} THEN {argv[2]} ELSE {}))

Run(argv) ==
    /\ \E order \in MainOrders(argv) :
           LET r == main(file, disk, argv, order) IN
           /\ file' = r.file
           /\ last' = CliCall(argv, r)
           /\ UNCHANGED <<disk, procs, amap>>

RunCreate ==
    /\ Idle
    /\ \E args \in ArgLists : Run(<<"create">> \o args)

RunUpdate ==
    /\ Idle
    /\ \E args \in ArgLists : Run(<<"update">> \o args)

RunList ==
    /\ Idle
    /\ \E args \in ArgLists : Run(<<"list">> \o args)

RunGet ==
    /\ Idle
    /\ \E args \in ArgLists : Run(<<"get">> \o args)

RunDelete ==
    /\ Idle
    /\ \E args \in ArgLists : Run(<<"delete">> \o args)

RunOther ==
    /\ Idle
    /\ \E args \in ArgLists : Run(<<"help">> \o args)

RunBare ==
    /\ Idle
    /\ Run(<<>>)

CliNext ==
    \/ RunCreate
    \/ RunUpdate
    \/ RunList
    \/ RunGet
    \/ RunDelete
    \/ RunOther
    \/ RunBare
    \/ EnvFile
    \/ Report

CliSpec == Init /\ [][CliNext]_vars

(***************************************************************************)
(* Two processes on the same file                                          *)
(*                                                                         *)
(* Nothing locks the file, so the file operations of two calls interleave. *)
(* A call's file operations are its reads (fs::read_to_string) and, for    *)
(* fs::write, the truncating open and the write at offset 0.               *)
(***************************************************************************)
Other(p) == CHOOSE q \in Procs : q # p

\* the other process's current call has written the file
OtherWrote(p) == procs[Other(p)].wrote

RaceEmails == {EmailPool[1], EmailPool[3]}
RaceUsers ==
    {User(e, u, PhonePool[1], AgePool[1]) :
        e \in RaceEmails, u \in {UsernamePool[1], UsernamePool[3]}}

\* the bytes of the pretty-printed document: "{}" for no member; otherwise
\* "{", one line per opening, field and closing of each member with its
\* indentation, quotes, separators and line ends, and "}"
PrettySize(entries) ==
    LET MemberSize(e) ==
            (ByteLen(e.key) + 8) + (ByteLen(e.value.email) + 17)
            + (ByteLen(e.value.username) + 20) + (ByteLen(e.value.phone) + 17)
            + (Len(e.value.age) + 12) + 3
        Sum[i \in 0..Len(entries)] ==
            IF i = 0 THEN 0 ELSE Sum[i - 1] + MemberSize(entries[i])
    IN  IF entries = <<>> THEN 2
        ELSE Sum[Len(entries)] + 2 * Len(entries) + 2

\* the file after `content` is written at offset 0 over `cur`: the longer
\* text that was there keeps its tail, which is not a JSON document; the
\* length of a damaged file is not known
Overlay(cur, content) ==
    IF cur.kind = "garbage" THEN {content, GarbageFile}
    ELSE IF cur.kind = "json" /\ PrettySize(cur.entries) > PrettySize(content.entries)
    THEN {GarbageFile}
    ELSE {content}

\* what a call returns when the Store operation inside it fails
RaceErr(op, e) == IF op \in {"save", "delete"} THEN e ELSE "RepositoryError"

Finished(pr, ok, err) == [pr EXCEPT !.pc = "done", !.ok = ok, !.err = err]

StartSave(p) ==
    /\ procs[p].pc = "idle"
    /\ \E u \in RaceUsers :
           procs' = [procs EXCEPT ![p] = [IdleProc EXCEPT !.pc = "read", !.op = "save", !.arg = u]]
    /\ UNCHANGED <<file, disk, last, amap>>

StartDelete(p) ==
    /\ procs[p].pc = "idle"
    /\ \E e \in RaceEmails :
           procs' = [procs EXCEPT ![p] = [IdleProc EXCEPT !.pc = "read", !.op = "delete",
                                                          !.arg = User(e, <<>>, <<>>, 0)]]
    /\ UNCHANGED <<file, disk, last, amap>>

StartCreateUser(p) ==
    /\ procs[p].pc = "idle"
    /\ \E u \in RaceUsers :
           LET v == create_validation(u.email, u.username, u.phone, u.age)
               pr == [IdleProc EXCEPT !.op = "create_user", !.arg = u]
           IN  procs' = [procs EXCEPT ![p] = IF v # "" THEN Finished(pr, FALSE, v)
                                             ELSE [pr EXCEPT !.pc = "lookup"]]
    /\ UNCHANGED <<file, disk, last, amap>>

StartUpdateUser(p) ==
    /\ procs[p].pc = "idle"
    /\ \E u \in RaceUsers :
           LET v == update_validation(u.username, u.phone, u.age)
               pr == [IdleProc EXCEPT !.op = "update_user", !.arg = u]
           IN  procs' = [procs EXCEPT ![p] = IF v # "" THEN Finished(pr, FALSE, v)
                                             ELSE [pr EXCEPT !.pc = "lookup"]]
    /\ UNCHANGED <<file, disk, last, amap>>

StartDeleteUser(p) ==
    /\ procs[p].pc = "idle"
    /\ \E e \in RaceEmails :
           procs' = [procs EXCEPT ![p] = [IdleProc EXCEPT !.pc = "read", !.op = "delete_user",
                                                          !.arg = User(e, <<>>, <<>>, 0)]]
    /\ UNCHANGED <<file, disk, last, amap>>

\* variant of StepLookup: createUser does not look at the result of its lookup
StepLookup_NoCheck(p) ==
    /\ procs[p].pc = "lookup"
    /\ LET pr == [procs[p] EXCEPT !.sawLook = OtherWrote(p)]
           lookup == find_by_email(file, pr.arg.email)
       IN  procs' = [procs EXCEPT ![p] =
               IF pr.op = "create_user"
               THEN [pr EXCEPT !.pc = "read"]
               ELSE IF ~lookup.ok THEN Finished(pr, FALSE, "RepositoryError")
               ELSE IF lookup.val = <<>> THEN Finished(pr, FALSE, "UserNotFound")
               ELSE [pr EXCEPT !.pc = "read"]]
    /\ UNCHANGED <<file, disk, last, amap>>

\* the existence check of createUser and updateUser: find_by_email
StepLookup(p) ==
    /\ procs[p].pc = "lookup"
    /\ LET pr == [procs[p] EXCEPT !.sawLook = OtherWrote(p)]
           lookup == find_by_email(file, pr.arg.email)
       IN  procs' = [procs EXCEPT ![p] =
               IF pr.op = "create_user"
               THEN IF create_exists(lookup) THEN Finished(pr, FALSE, "UserAlreadyExists")
                    ELSE [pr EXCEPT !.pc = "read"]
               ELSE IF ~lookup.ok THEN Finished(pr, FALSE, "RepositoryError")
               ELSE IF lookup.val = <<>> THEN Finished(pr, FALSE, "UserNotFound")
               ELSE [pr EXCEPT !.pc = "read"]]
    /\ UNCHANGED <<file, disk, last, amap>>

\* read_users inside save and delete, and the change made to the map read
StepRead(p) ==
    /\ procs[p].pc = "read"
    /\ LET pr == [procs[p] EXCEPT !.sawRead = OtherWrote(p)]
           r == read_users(file)
           email == pr.arg.email
       IN  procs' = [procs EXCEPT ![p] =
               IF ~r.ok THEN Finished(pr, FALSE, RaceErr(pr.op, r.err))
               ELSE [pr EXCEPT !.pc = "truncate",
                               !.snap = r.users,
                               !.existed = email \in DOMAIN r.users,
                               !.out = IF pr.op \in {"delete", "delete_user"}
                                       THEN Remove(r.users, email)
                                       ELSE Insert(r.users, email, pr.arg)]]
    /\ UNCHANGED <<file, disk, last, amap>>

\* fs::write opens the file: it is truncated, or the open fails
StepTruncate(p) ==
    /\ procs[p].pc = "truncate"
    /\ IF disk = "readonly"
       THEN /\ procs' = [procs EXCEPT ![p] =
                            Finished(procs[p], FALSE, RaceErr(procs[p].op, "Failed to write file"))]
            /\ UNCHANGED file
       ELSE /\ procs' = [procs EXCEPT ![p].pc = "write"]
            /\ file' = EmptyFile
    /\ UNCHANGED <<disk, last, amap>>

\* variant of StepWrite: the change is applied to the map the file holds when
\* the write happens
StepWrite_Merges(p) ==
    /\ procs[p].pc = "write"
    /\ LET pr == [procs[p] EXCEPT !.second = OtherWrote(p), !.wrote = TRUE]
           now == read_users(file).users
           out == IF pr.op \in {"delete", "delete_user"}
                  THEN Remove(now, pr.arg.email)
                  ELSE Insert(now, pr.arg.email, pr.arg)
       IN  IF disk = "full"
           THEN /\ procs' = [procs EXCEPT ![p] =
                                Finished(pr, FALSE, RaceErr(pr.op, "Failed to write file"))]
                /\ UNCHANGED file
           ELSE /\ \E order \in Orders(DOMAIN out) :
                       file' \in Overlay(file, JsonFile(Serialize(out, order)))
                /\ procs' = [procs EXCEPT ![p] =
                                IF pr.op = "delete_user" /\ ~pr.existed
                                THEN Finished(pr, FALSE, "UserNotFound")
                                ELSE Finished(pr, TRUE, "")]
    /\ UNCHANGED <<disk, last, amap>>

\* fs::write writes the serialized map, and the call returns
StepWrite(p) ==
    /\ procs[p].pc = "write"
    /\ LET pr == [procs[p] EXCEPT !.second = OtherWrote(p), !.wrote = TRUE]
       IN  IF disk = "full"
           THEN /\ procs' = [procs EXCEPT ![p] =
                                Finished(pr, FALSE, RaceErr(pr.op, "Failed to write file"))]
                /\ UNCHANGED file
           ELSE /\ \E order \in Orders(DOMAIN pr.out) :
                       file' \in Overlay(file, JsonFile(Serialize(pr.out, order)))
                /\ procs' = [procs EXCEPT ![p] =
                                IF pr.op = "delete_user" /\ ~pr.existed
                                THEN Finished(pr, FALSE, "UserNotFound")
                                ELSE Finished(pr, TRUE, "")]
    /\ UNCHANGED <<disk, last, amap>>

\* the calls in flight have all returned; the processes go on to new calls
Return ==
    /\ \A p \in Procs : procs[p].pc \in {"idle", "done"}
    /\ \E p \in Procs : procs[p].pc = "done"
    /\ procs' = [p \in Procs |-> IdleProc]
    /\ UNCHANGED <<file, disk, last, amap>>

StoreRaceNext ==
    \/ \E p \in Procs : StartSave(p)
    \/ \E p \in Procs : StartDelete(p)
    \/ \E p \in Procs : StepRead(p)
    \/ \E p \in Procs : StepTruncate(p)
    \/ \E p \in Procs : StepWrite(p)
    \/ Return

StoreRaceSpec == Init /\ [][StoreRaceNext]_vars

ServiceRaceNext ==
    \/ \E p \in Procs : StartCreateUser(p)
    \/ \E p \in Procs : StartUpdateUser(p)
    \/ \E p \in Procs : StartDeleteUser(p)
    \/ \E p \in Procs : StepLookup(p)
    \/ \E p \in Procs : StepRead(p)
    \/ \E p \in Procs : StepTruncate(p)
    \/ \E p \in Procs : StepWrite(p)
    \/ Return

ServiceRaceSpec == Init /\ [][ServiceRaceNext]_vars

(***************************************************************************)
(* The Service and the Store used on the same file, one call at a time,    *)
(* without faults: what the Store is handed directly is not validated      *)
(***************************************************************************)
MixedCreateUser ==
    /\ Idle
    /\ \E u \in StoreUsers :
       \E order \in Orders(KeysOf(file) \cup {u.email}) :
           LET r == create_user(file, disk, u.email, u.username, u.phone, u.age, order) IN
           /\ file' = r.file
           /\ last' = Call("create_user", u.email, u.username, u.phone, u.age, r)
           /\ UNCHANGED <<disk, procs, amap>>

MixedUpdateUser ==
    /\ Idle
    /\ \E u \in StoreUsers :
       \E order \in Orders(KeysOf(file) \cup {u.email}) :
           LET r == update_user(file, disk, u.email, u.username, u.phone, u.age, order) IN
           /\ file' = r.file
           /\ last' = Call("update_user", u.email, u.username, u.phone, u.age, r)
           /\ UNCHANGED <<disk, procs, amap>>

MixedNext ==
    \/ MixedCreateUser
    \/ MixedUpdateUser
    \/ GetUser
    \/ ListUsers
    \/ DeleteUser
    \/ StoreSave
    \/ StoreFindByEmail
    \/ StoreFindAll
    \/ StoreDelete
    \/ Report

MixedSpec == Init /\ [][MixedNext]_vars

(***************************************************************************)
(* The Service alone, one call at a time, without faults                   *)
(***************************************************************************)
SeqNext ==
    \/ CreateUser
    \/ UpdateUser
    \/ GetUser
    \/ ListUsers
    \/ DeleteUser
    \/ Report

SeqSpec == Init /\ [][SeqNext]_vars

(***************************************************************************)
(* The Store next to an in-memory map                                      *)
(*                                                                         *)
(* The UserRepository trait implemented by a map from email to record that *)
(* is kept in memory; every call is made on the file and on the map.       *)
(***************************************************************************)
\* results [ok, val, existed, map]
map_save(m, user) ==
    [ok |-> TRUE, val |-> <<>>, existed |-> FALSE, map |-> Insert(m, user.email, user)]

map_find_by_email(m, email) ==
    [ok |-> TRUE, val |-> IF email \in DOMAIN m THEN <<m[email]>> ELSE <<>>,
     existed |-> FALSE, map |-> m]

map_find_all(m, order) ==
    LET keys == SelectSeq(order, LAMBDA k : k \in DOMAIN m)
    IN  [ok |-> TRUE, val |-> [i \in 1..Len(keys) |-> m[keys[i]]], existed |-> FALSE, map |-> m]

map_delete(m, email) ==
    [ok |-> TRUE, val |-> <<>>, existed |-> email \in DOMAIN m, map |-> Remove(m, email)]

\* the call that has returned on the file, with what the map returned
RefCall(op, u, r, a) ==
    [op |-> op, email |-> u.email, username |-> u.username, phone |-> u.phone, age |-> u.age,
     pre |-> file, disk |-> disk,
     ok |-> r.ok, err |-> r.err, val |-> r.val, existed |-> r.existed, calls |-> <<>>,
     aok |-> a.ok, aval |-> a.val, aexisted |-> a.existed, apre |-> amap]

RefSave ==
    /\ Idle
    /\ \E u \in StoreUsers :
       \E order \in Orders(KeysOf(file) \cup {u.email}) :
           LET r == save(file, disk, u, order)
               a == map_save(amap, u)
           IN  /\ file' = r.file
               /\ amap' = a.map
               /\ last' = RefCall("save", u, r, a)
               /\ UNCHANGED <<disk, procs>>

RefFindByEmail ==
    /\ Idle
    /\ \E email \in StoreEmails :
           LET r == find_by_email(file, email)
               a == map_find_by_email(amap, email)
           IN  /\ file' = r.file
               /\ amap' = a.map
               /\ last' = RefCall("find_by_email", User(email, <<>>, <<>>, 0), r, a)
               /\ UNCHANGED <<disk, procs>>

\* the file-backed map and the in-memory map each iterate in an order of
\* their own
RefFindAll ==
    /\ Idle
    /\ \E order \in Orders(KeysOf(file)), aorder \in Orders(DOMAIN amap) :
           LET r == find_all(file, order)
               a == map_find_all(amap, aorder)
           IN  /\ file' = r.file
               /\ amap' = a.map
               /\ last' = RefCall("find_all", User(<<>>, <<>>, <<>>, 0), r, a)
               /\ UNCHANGED <<disk, procs>>

RefDelete ==
    /\ Idle
    /\ \E email \in StoreEmails :
       \E order \in Orders(KeysOf(file)) :
           LET r == delete(file, disk, email, order)
               a == map_delete(amap, email)
           IN  /\ file' = r.file
               /\ amap' = a.map
               /\ last' = RefCall("delete", User(email, <<>>, <<>>, 0), r, a)
               /\ UNCHANGED <<disk, procs>>

RefNext ==
    \/ RefSave
    \/ RefFindByEmail
    \/ RefFindAll
    \/ RefDelete
    \/ Report

RefSpec == Init /\ [][RefNext]_vars

(***************************************************************************)
(* Properties                                                              *)
(*                                                                         *)
(* They read `last`, the call that has just returned, against `last.pre`,  *)
(* the file it started from, and `file`, the file it left.                 *)
(***************************************************************************)
PreReadable == read_users(last.pre).ok
PreUsers == read_users(last.pre).users
NowReadable == read_users(file).ok
NowUsers == read_users(file).users

\* the call met no storage failure: the file parsed and the write went through
NoFault == PreReadable /\ last.disk = "ok"

\* the record made of the arguments of the call
ArgUser == User(last.email, last.username, last.phone, last.age)

EmailValid == validate_email(last.email) = ""
UsernameValid == validate_username(last.username) = ""
PhoneValid == validate_phone(last.phone) = ""
AgeValid == validate_age(last.age) = ""

\* every record stored before the call under another email is stored unchanged
OthersUnchanged ==
    /\ NowReadable
    /\ \A k \in DOMAIN PreUsers \ {last.email} :
          k \in DOMAIN NowUsers /\ NowUsers[k] = PreUsers[k]

ServiceOps == {"create_user", "update_user", "get_user", "list_users", "delete_user"}
ValidationErrors == {"InvalidEmail", "InvalidUsername", "InvalidPhone", "InvalidAge"}

\* C1: createUser with four valid fields and an email not yet stored succeeds
\* and returns the constructed record, and a getUser(email) made right after it
\* returns a record equal to it in all four fields (no storage failure).
C1_CreateThenGet ==
    (/\ last.op = "create_user"
     /\ EmailValid /\ UsernameValid /\ PhoneValid /\ AgeValid
     /\ NoFault
     /\ last.email \notin DOMAIN PreUsers)
    => /\ last.ok
       /\ last.val = <<ArgUser>>
       /\ LET g == get_user(file, last.email) IN
          /\ g.ok
          /\ Len(g.val) = 1
          /\ g.val[1].email = last.email
          /\ g.val[1].username = last.username
          /\ g.val[1].phone = last.phone
          /\ g.val[1].age = last.age

\* a valid createUser of a new email has returned, next to an older record
C1_Witness ==
    /\ last.op = "create_user"
    /\ EmailValid /\ UsernameValid /\ PhoneValid /\ AgeValid
    /\ NoFault
    /\ last.email \notin DOMAIN PreUsers
    /\ DOMAIN PreUsers # {}
    /\ last.ok

\* C2: a createUser whose email is already stored fails with
\* UserAlreadyExists, also when its (valid) username, phone and age differ from
\* the stored ones, and the stored record and the file are left as they were.
C2_DuplicateEmailRejected ==
    (/\ last.op = "create_user"
     /\ EmailValid /\ UsernameValid /\ PhoneValid /\ AgeValid
     /\ PreReadable
     /\ last.email \in DOMAIN PreUsers)
    => /\ ~last.ok
       /\ last.err = "UserAlreadyExists"
       /\ file = last.pre
       /\ NowReadable
       /\ last.email \in DOMAIN NowUsers
       /\ NowUsers[last.email] = PreUsers[last.email]

\* a second createUser on a stored email, differing in username, phone and age
C2_Witness ==
    /\ last.op = "create_user"
    /\ EmailValid /\ UsernameValid /\ PhoneValid /\ AgeValid
    /\ PreReadable
    /\ last.email \in DOMAIN PreUsers
    /\ PreUsers[last.email].username # last.username
    /\ PreUsers[last.email].phone # last.phone
    /\ PreUsers[last.email].age # last.age
    /\ last.err = "UserAlreadyExists"

\* C3 as stated: for every email not present in the store, getUser, updateUser
\* (with any other arguments) and deleteUser each fail with UserNotFound.
C3_AbsentAlwaysNotFound ==
    (/\ last.op \in {"get_user", "update_user", "delete_user"}
     /\ NoFault
     /\ last.email \notin DOMAIN PreUsers)
    => (~last.ok /\ last.err = "UserNotFound")

\* C3, amended: for every email not present in the store, getUser and
\* deleteUser fail with UserNotFound, and updateUser fails with UserNotFound
\* when its username, phone and age pass validation; with an invalid field it
\* fails with the validation error of the first invalid field instead.
C3_AbsentNotFound ==
    (/\ last.op \in {"get_user", "update_user", "delete_user"}
     /\ NoFault
     /\ last.email \notin DOMAIN PreUsers)
    => /\ ~last.ok
       /\ IF last.op = "update_user" /\ ~(UsernameValid /\ PhoneValid /\ AgeValid)
          THEN last.err = (IF ~UsernameValid THEN "InvalidUsername"
                           ELSE IF ~PhoneValid THEN "InvalidPhone"
                           ELSE "InvalidAge")
          ELSE last.err = "UserNotFound"

\* deleteUser of an email that is not stored has returned, other records exist
C3_Witness ==
    /\ last.op = "delete_user"
    /\ NoFault
    /\ last.email \notin DOMAIN PreUsers
    /\ DOMAIN PreUsers # {}
    /\ last.err = "UserNotFound"

\* C4: deleteUser of a stored email succeeds, a getUser(email) made right after
\* it fails with UserNotFound, findAll returns exactly one record fewer, and
\* every other record is unchanged (no storage failure).
C4_DeleteRemovesOne ==
    (/\ last.op = "delete_user"
     /\ NoFault
     /\ last.email \in DOMAIN PreUsers)
    => /\ last.ok
       /\ LET g == get_user(file, last.email) IN ~g.ok /\ g.err = "UserNotFound"
       /\ \A o1 \in Orders(KeysOf(last.pre)), o2 \in Orders(KeysOf(file)) :
             LET before == find_all(last.pre, o1)
                 after == find_all(file, o2)
             IN  before.ok /\ after.ok /\ Len(after.val) = Len(before.val) - 1
       /\ OthersUnchanged

\* deleteUser of one of two stored records has succeeded
C4_Witness ==
    /\ last.op = "delete_user"
    /\ NoFault
    /\ last.email \in DOMAIN PreUsers
    /\ Cardinality(DOMAIN PreUsers) = 2
    /\ last.ok

\* C5: updateUser of a stored email with valid new fields replaces the record
\* wholesale: a getUser(email) made right after it returns the new username,
\* phone and age under the same email, the number of stored records is
\* unchanged and every record under another email is unchanged (no storage
\* failure).
C5_UpdateReplaces ==
    (/\ last.op = "update_user"
     /\ UsernameValid /\ PhoneValid /\ AgeValid
     /\ NoFault
     /\ last.email \in DOMAIN PreUsers)
    => /\ last.ok
       /\ last.val = <<ArgUser>>
       /\ LET g == get_user(file, last.email) IN g.ok /\ g.val = <<ArgUser>>
       /\ Cardinality(DOMAIN NowUsers) = Cardinality(DOMAIN PreUsers)
       /\ OthersUnchanged

\* updateUser has changed username, phone and age of one of two stored records
C5_Witness ==
    /\ last.op = "update_user"
    /\ NoFault
    /\ last.email \in DOMAIN PreUsers
    /\ Cardinality(DOMAIN PreUsers) = 2
    /\ PreUsers[last.email].username # last.username
    /\ PreUsers[last.email].phone # last.phone
    /\ PreUsers[last.email].age # last.age
    /\ last.ok

\* C6: createUser checks email, username, phone, age in this order and reports
\* only the first failure: whatever combination of fields is invalid, the error
\* is that of the earliest invalid field in this order.
C6_CreateFirstInvalidField ==
    last.op = "create_user" =>
        /\ ~EmailValid => (~last.ok /\ last.err = "InvalidEmail")
        /\ (EmailValid /\ ~UsernameValid) => (~last.ok /\ last.err = "InvalidUsername")
        /\ (EmailValid /\ UsernameValid /\ ~PhoneValid)
              => (~last.ok /\ last.err = "InvalidPhone")
        /\ (EmailValid /\ UsernameValid /\ PhoneValid /\ ~AgeValid)
              => (~last.ok /\ last.err = "InvalidAge")

\* createUser with an invalid username, phone and age at once reported the username
C6_Witness ==
    /\ last.op = "create_user"
    /\ EmailValid /\ ~UsernameValid /\ ~PhoneValid /\ ~AgeValid
    /\ last.err = "InvalidUsername"

\* C7: validation runs before any I/O: when createUser or updateUser fails with
\* InvalidEmail, InvalidUsername, InvalidPhone or InvalidAge, the call has
\* invoked no Store operation and the backing file, hence the stored record
\* set, is exactly as before the call.
C7_ValidationBeforeIO ==
    (/\ last.op \in {"create_user", "update_user"}
     /\ ~last.ok
     /\ last.err \in ValidationErrors)
    => /\ last.calls = <<>>
       /\ file = last.pre

\* createUser failed validation on an email that is stored, over a file of two records
C7_Witness ==
    /\ last.op = "create_user"
    /\ last.err \in ValidationErrors
    /\ PreReadable
    /\ last.email \in DOMAIN PreUsers
    /\ Cardinality(DOMAIN PreUsers) = 2

\* C8 as stated: a uniqueness/existence check precedes each mutating Store call
\* of the Service, so the Store is never asked to save over an existing email
\* on create, to save an absent email on update, or to delete (and rewrite the
\* file for) an absent email on deleteUser.
C8_CheckPrecedesEveryMutation ==
    /\ (last.op = "create_user" /\ "save" \in {last.calls[i] : i \in DOMAIN last.calls})
          => /\ last.calls = <<"find_by_email", "save">>
             /\ PreReadable => last.email \notin DOMAIN PreUsers
    /\ (last.op = "update_user" /\ "save" \in {last.calls[i] : i \in DOMAIN last.calls})
          => /\ last.calls = <<"find_by_email", "save">>
             /\ PreReadable /\ last.email \in DOMAIN PreUsers
    /\ (last.op = "delete_user" /\ "delete" \in {last.calls[i] : i \in DOMAIN last.calls}
          /\ PreReadable)
          => last.email \in DOMAIN PreUsers

\* C8, amended: an existence lookup precedes each Store.save of the Service, so
\* the Store is never asked to save over an existing email on create or to
\* save an absent email on update; deleteUser makes no check of its own: it
\* always calls Store.delete, also for an absent email, and the file is then
\* rewritten with the unchanged record set before UserNotFound is reported.
C8_CheckPrecedesSave ==
    /\ (last.op = "create_user" /\ "save" \in {last.calls[i] : i \in DOMAIN last.calls})
          => /\ last.calls = <<"find_by_email", "save">>
             /\ PreReadable => last.email \notin DOMAIN PreUsers
    /\ (last.op = "update_user" /\ "save" \in {last.calls[i] : i \in DOMAIN last.calls})
          => /\ last.calls = <<"find_by_email", "save">>
             /\ PreReadable /\ last.email \in DOMAIN PreUsers
    /\ last.op = "delete_user"
          => /\ last.calls = <<"delete">>
             /\ (NoFault /\ last.email \notin DOMAIN PreUsers)
                   => /\ last.err = "UserNotFound"
                      /\ file.kind = "json"
                      /\ NowUsers = PreUsers

\* deleteUser of an absent email on a missing file has called Store.delete and
\* left a JSON file behind
C8_Witness ==
    /\ last.op = "delete_user"
    /\ last.pre = AbsentFile
    /\ last.disk = "ok"
    /\ last.calls = <<"delete">>
    /\ last.err = "UserNotFound"
    /\ file = JsonFile(<<>>)

\* C9: every Store failure met by a Service operation comes back as
\* RepositoryError and none is swallowed: when the lookup inside createUser
\* fails, createUser returns RepositoryError without calling Store.save; a
\* failing lookup or save in updateUser, getUser, listUsers and deleteUser
\* yields RepositoryError as well.
C9_StoreFailureSurfaced ==
    /\ (last.op \in {"update_user", "get_user", "list_users", "delete_user"} /\ ~PreReadable)
          => (~last.ok /\ last.err = "RepositoryError")
    /\ (last.op \in {"create_user", "update_user", "delete_user"} /\ last.disk # "ok"
          /\ (last.calls # <<>> /\ last.calls[Len(last.calls)] \in {"save", "delete"}))
          => (~last.ok /\ last.err = "RepositoryError")
    /\ (last.op = "create_user" /\ last.calls # <<>> /\ ~find_by_email(last.pre, last.email).ok)
          => /\ ~last.ok
             /\ last.err = "RepositoryError"
             /\ last.calls = <<"find_by_email">>

StoreOps == {"save", "find_by_email", "find_all", "delete"}
ReadErrors == {"Failed to read file", "Failed to parse JSON"}

\* C10: for every Store operation, a backing file that is missing or has zero
\* bytes is read as the empty record set without error (find_by_email finds
\* nothing, find_all is empty, delete reports false, save stores exactly its
\* record), and a file that exists, is non-empty and is not valid JSON makes
\* the operation fail with a storage error and is left unmodified.
C10_MissingEmptyOrInvalidFile ==
    last.op \in StoreOps =>
        /\ last.pre.kind \in {"absent", "empty"} =>
              /\ PreUsers = EmptyUsers
              /\ last.err \notin ReadErrors
              /\ last.disk = "ok" =>
                    /\ last.ok
                    /\ last.val = <<>>
                    /\ ~last.existed
                    /\ last.op \in {"find_by_email", "find_all"} => file = last.pre
                    /\ last.op = "delete" => (NowReadable /\ NowUsers = EmptyUsers)
                    /\ last.op = "save" =>
                          /\ NowReadable
                          /\ DOMAIN NowUsers = {last.email}
                          /\ NowUsers[last.email] = ArgUser
        /\ last.pre.kind = "garbage" =>
              /\ ~last.ok
              /\ last.err \in ReadErrors
              /\ file = last.pre

\* a save on a zero-byte file has stored its record
C10_Witness ==
    /\ last.op = "save"
    /\ last.pre = EmptyFile
    /\ last.ok
    /\ file.kind = "json"
    /\ DOMAIN NowUsers = {last.email}


\* C11: updateUser validates username, then phone, then age and reports only
\* the first failing field, before the existence check and whether or not the
\* email is stored; it never validates the email: with a syntactically invalid
\* email that is not stored and otherwise valid fields it yields UserNotFound.
C11_UpdateValidationOrder ==
    last.op = "update_user" =>
        /\ ~UsernameValid
              => (~last.ok /\ last.err = "InvalidUsername" /\ last.calls = <<>>)
        /\ (UsernameValid /\ ~PhoneValid)
              => (~last.ok /\ last.err = "InvalidPhone" /\ last.calls = <<>>)
        /\ (UsernameValid /\ PhoneValid /\ ~AgeValid)
              => (~last.ok /\ last.err = "InvalidAge" /\ last.calls = <<>>)
        /\ last.err # "InvalidEmail"
        /\ (/\ UsernameValid /\ PhoneValid /\ AgeValid
            /\ ~EmailValid
            /\ PreReadable
            /\ last.email \notin DOMAIN PreUsers)
              => (~last.ok /\ last.err = "UserNotFound")

\* updateUser with an invalid email and valid fields has reported UserNotFound
\* over a file that holds other records
C11_Witness ==
    /\ last.op = "update_user"
    /\ UsernameValid /\ PhoneValid /\ AgeValid
    /\ ~EmailValid
    /\ PreReadable
    /\ DOMAIN PreUsers # {}
    /\ last.err = "UserNotFound"


\* the record set the last Store call handed to write_users
WrittenUsers ==
    IF last.op = "save" THEN Insert(PreUsers, last.email, ArgUser)
    ELSE Remove(PreUsers, last.email)

\* C16: round trip: a record set written to the JSON file by write_users and
\* read back by read_users is the identical mapping, whatever the order of the
\* entries in the file; this includes the empty mapping.
C16_RoundTrip ==
    /\ (last.op \in {"save", "delete"} /\ last.ok)
          => /\ file.kind = "json"
             /\ NowReadable
             /\ NowUsers = WrittenUsers
    /\ NowReadable =>
          \A order \in Orders(DOMAIN NowUsers) :
             LET w == write_users(file, "ok", NowUsers, order)
                 r == read_users(w.file)
             IN  /\ w.ok
                 /\ Len(w.file.entries) = Cardinality(DOMAIN NowUsers)
                 /\ r.ok
                 /\ r.users = NowUsers

\* a set of two records, one with a quote and a backslash in its username, has
\* been written and read back
C16_Witness ==
    /\ last.op = "save"
    /\ last.ok
    /\ Cardinality(DOMAIN WrittenUsers) = 2
    /\ \E i \in DOMAIN last.username : last.username[i] = "\\"
    /\ NowUsers = WrittenUsers

\* C19: Store.save(user) is an upsert with a tight frame: after a successful
\* save, find_by_email(user.email) returns exactly user, the entry under every
\* other email is unchanged, and the record count grows by one if the email
\* was absent and is unchanged if it was present.
C19_SaveUpsertFrame ==
    (last.op = "save" /\ last.ok)
    => /\ LET g == find_by_email(file, last.email) IN g.ok /\ g.val = <<ArgUser>>
       /\ OthersUnchanged
       /\ DOMAIN NowUsers = DOMAIN PreUsers \cup {last.email}
       /\ Cardinality(DOMAIN NowUsers) =
             Cardinality(DOMAIN PreUsers) + (IF last.email \in DOMAIN PreUsers THEN 0 ELSE 1)

\* a save has replaced the entry of a stored email next to another entry
C19_Witness ==
    /\ last.op = "save"
    /\ last.ok
    /\ Cardinality(DOMAIN PreUsers) = 2
    /\ last.email \in DOMAIN PreUsers
    /\ PreUsers[last.email] # ArgUser

\* C20: Store.delete(email) returns true if and only if an entry for email
\* existed right before the call, and it rewrites the backing file in both
\* cases: deleting an absent email from a missing or zero-byte file leaves a
\* file holding the empty JSON object, and the record set is unchanged.
C20_DeleteReportsAndRewrites ==
    (last.op = "delete" /\ last.ok)
    => /\ last.existed <=> (last.email \in DOMAIN PreUsers)
       /\ file.kind = "json"
       /\ NowReadable
       /\ last.email \notin DOMAIN PreUsers => NowUsers = PreUsers
       /\ last.pre.kind \in {"absent", "empty"} => (~last.existed /\ file = JsonFile(<<>>))

\* a delete of an absent email on a missing file has returned false and left
\* the empty JSON object
C20_Witness ==
    /\ last.op = "delete"
    /\ last.ok
    /\ last.pre = AbsentFile
    /\ ~last.existed
    /\ file = JsonFile(<<>>)


\* C17: no record state is held between calls: the result of every Service
\* operation is the one determined by its arguments and the content the
\* backing file has when the call starts, whichever run of the program or
\* outside change produced that content. On a readable file getUser returns
\* the stored record or UserNotFound, listUsers returns exactly the stored
\* records, and createUser, updateUser and deleteUser with valid fields
\* decide UserAlreadyExists or UserNotFound by the stored keys; on an
\* unreadable file getUser, listUsers, updateUser and deleteUser report a
\* RepositoryError.
C17_ResultFromFileAndArguments ==
    /\ (last.op = "get_user" /\ PreReadable) =>
          IF last.email \in DOMAIN PreUsers
          THEN last.ok /\ last.val = <<PreUsers[last.email]>>
          ELSE ~last.ok /\ last.err = "UserNotFound"
    /\ (last.op = "list_users" /\ PreReadable) =>
          /\ last.ok
          /\ Len(last.val) = Cardinality(DOMAIN PreUsers)
          /\ {last.val[i] : i \in DOMAIN last.val} = {PreUsers[k] : k \in DOMAIN PreUsers}
    /\ (last.op = "create_user" /\ PreReadable
          /\ EmailValid /\ UsernameValid /\ PhoneValid /\ AgeValid) =>
          IF last.email \in DOMAIN PreUsers
          THEN ~last.ok /\ last.err = "UserAlreadyExists"
          ELSE last.disk = "ok" => (last.ok /\ last.val = <<ArgUser>>)
    /\ (last.op = "update_user" /\ PreReadable
          /\ UsernameValid /\ PhoneValid /\ AgeValid) =>
          IF last.email \in DOMAIN PreUsers
          THEN last.disk = "ok" => (last.ok /\ last.val = <<ArgUser>>)
          ELSE ~last.ok /\ last.err = "UserNotFound"
    /\ (last.op = "delete_user" /\ NoFault) =>
          IF last.email \in DOMAIN PreUsers
          THEN last.ok
          ELSE ~last.ok /\ last.err = "UserNotFound"
    /\ (last.op \in {"get_user", "list_users", "delete_user"} /\ ~PreReadable) =>
          (~last.ok /\ last.err = "RepositoryError")
    /\ (last.op = "update_user" /\ ~PreReadable
          /\ UsernameValid /\ PhoneValid /\ AgeValid) =>
          (~last.ok /\ last.err = "RepositoryError")

\* a run of the program lists the two records that two earlier runs wrote
C17_Witness ==
    /\ last.op = "list_users"
    /\ last.ok
    /\ Cardinality(DOMAIN PreUsers) = 2
    /\ Len(last.val) = 2


\* C12: username validation accepts a username if and only if its
\* whitespace-trimmed form has at least 3 characters: createUser and
\* updateUser fail with InvalidUsername exactly when the trimmed length is
\* below 3, whitespace-padded strings of raw length 3 or more included.
C12_TrimmedLengthRule ==
    (last.op = "update_user" \/ (last.op = "create_user" /\ EmailValid))
    => (last.err = "InvalidUsername" <=> Len(trim(last.username)) < UsernameMinLen)


\* C13: age validation enforces only an upper bound: createUser and
\* updateUser fail with InvalidAge if and only if the age is above 150, so 0
\* and 150 pass the age check and 151 and every larger age are rejected; an
\* age that passes is stored as given.
C13_AgeUpperBoundOnly ==
    last.op \in {"create_user", "update_user"}
    => /\ last.err = "InvalidAge" <=> last.age > MaxAge
       /\ last.age \in {0, MaxAge} => last.err # "InvalidAge"
       /\ last.age = MaxAge + 1 => (~last.ok /\ last.err = "InvalidAge" /\ file = last.pre)
       /\ last.ok => (NowReadable /\ NowUsers[last.email].age = last.age)

\* an update has stored the age 150 over another stored age
C13_Witness ==
    /\ last.op = "update_user"
    /\ last.ok
    /\ last.age = MaxAge
    /\ PreUsers[last.email].age = 0
    /\ NowUsers[last.email].age = MaxAge


\* the argument count the subcommand is said to require
RequiredArgc(cmd) ==
    IF cmd = "create" THEN CreateArgc
    ELSE IF cmd = "update" THEN UpdateArgc
    ELSE IF cmd = "get" THEN GetArgc
    ELSE IF cmd = "delete" THEN DeleteArgc
    ELSE 0

UsageErrors ==
    {"Usage: create <email> <username> <phone> <age>",
     "Usage: update <email> <username> <phone> <age>",
     "Usage: list", "Usage: get <email>", "Usage: delete <email>"}

\* C18: each subcommand requires an exact argument count (create 4, update
\* 4, list 0, get 1, delete 1); on any mismatch a usage error is reported and
\* the Service is never invoked, so the store is not read and is unchanged.
C18_ExactArgumentCount ==
    (/\ last.op = "main"
     /\ last.argv # <<>>
     /\ last.argv[1] \in {"create", "update", "list", "get", "delete"}
     /\ Len(last.argv) - 1 # RequiredArgc(last.argv[1]))
    => /\ last.err \in UsageErrors
       /\ last.service = "none"
       /\ last.calls = <<>>
       /\ file = last.pre


\* both processes' calls have written the file and returned
BothWrote == \A p \in Procs : procs[p].pc = "done" /\ procs[p].wrote

\* the map a call writes when it starts from the map `users`
Applied(users, pr) ==
    IF pr.op \in {"delete", "delete_user"}
    THEN Remove(users, pr.arg.email)
    ELSE Insert(users, pr.arg.email, pr.arg)

\* C14: lost update: two processes run save or delete on the same file with
\* their reads and writes interleaved, nothing locks the file and no call
\* reports a failure; when both calls have written and returned success, a
\* readable file holds exactly the map the later writer read with that
\* writer's own change, so the earlier writer's change is there only if the
\* later writer read it: when the later writer read after the earlier write,
\* both changes are in the file.
C14_LaterWriteClobbers ==
    BothWrote =>
        /\ \E w \in Procs : procs[w].second
        /\ \A w \in Procs :
            procs[w].second =>
                LET l == Other(w) IN
                /\ procs[w].ok /\ procs[l].ok
                /\ ~procs[l].second
                /\ file.kind \in {"json", "garbage"}
                /\ file.kind = "json" => NowUsers = Applied(procs[w].snap, procs[w])
                /\ procs[w].sawRead =>
                      /\ file.kind = "json"
                      /\ NowUsers = Applied(Applied(procs[l].snap, procs[l]), procs[w])

\* both saves returned success and the file lacks the record of the first
C14_Witness ==
    /\ BothWrote
    /\ \E w \in Procs :
          LET l == Other(w) IN
          /\ procs[w].second
          /\ procs[w].op = "save" /\ procs[l].op = "save"
          /\ procs[w].ok /\ procs[l].ok
          /\ file.kind = "json"
          /\ procs[l].arg.email \notin DOMAIN NowUsers
          /\ procs[w].arg.email \in DOMAIN NowUsers

\* C15: check-then-act race: when two processes run createUser with the
\* same email and both return success, neither existence check ran after the
\* other call's write, and a readable file holds the record written last;
\* when a deleteUser of a stored email writes between updateUser's existence
\* check and the read of its save, the update returns success and the file
\* holds the deleted email again, with the update's record.
C15_CheckThenAct ==
    \A p \in Procs :
        LET q == Other(p) IN
        /\ (/\ procs[p].pc = "done" /\ procs[q].pc = "done"
            /\ procs[p].op = "create_user" /\ procs[q].op = "create_user"
            /\ procs[p].arg.email = procs[q].arg.email
            /\ procs[p].ok /\ procs[q].ok)
           => /\ ~procs[p].sawLook /\ ~procs[q].sawLook
              /\ procs[p].wrote /\ procs[q].wrote
              /\ (file.kind = "json" /\ procs[p].second)
                    => NowUsers[procs[p].arg.email] = procs[p].arg
        /\ (/\ procs[p].pc = "done" /\ procs[q].pc = "done"
            /\ procs[p].op = "update_user" /\ procs[q].op = "delete_user"
            /\ procs[p].arg.email = procs[q].arg.email
            /\ procs[q].wrote /\ procs[q].existed
            /\ ~procs[p].sawLook /\ procs[p].sawRead)
           => /\ procs[p].ok /\ procs[q].ok
              /\ procs[p].arg.email \notin DOMAIN procs[p].snap
              /\ file.kind = "json"
              /\ NowUsers[procs[p].arg.email] = procs[p].arg

\* two createUser calls with the same email and different usernames both
\* returned success; the file holds the record of the second writer
C15_Witness ==
    \E p \in Procs :
        LET q == Other(p) IN
        /\ procs[p].pc = "done" /\ procs[q].pc = "done"
        /\ procs[p].op = "create_user" /\ procs[q].op = "create_user"
        /\ procs[p].arg.email = procs[q].arg.email
        /\ procs[p].arg # procs[q].arg
        /\ procs[p].ok /\ procs[q].ok
        /\ procs[p].second
        /\ file.kind = "json"
        /\ NowUsers[procs[p].arg.email] = procs[p].arg


\* C21: listUsers validates nothing and returns exactly the stored records,
\* one element per stored email, none missing and none twice, in some order;
\* on an absent or zero-byte file it returns the empty collection; it calls
\* only find_all and never modifies the file.
C21_ListReturnsStoredRecords ==
    last.op = "list_users"
    => /\ file = last.pre
       /\ last.calls = <<"find_all">>
       /\ last.err \notin ValidationErrors
       /\ PreReadable =>
             /\ last.ok
             /\ Len(last.val) = Cardinality(DOMAIN PreUsers)
             /\ \A i \in DOMAIN last.val : last.val[i].email \in DOMAIN PreUsers
             /\ \A k \in DOMAIN PreUsers :
                   /\ Cardinality({i \in DOMAIN last.val : last.val[i].email = k}) = 1
                   /\ \E i \in DOMAIN last.val : last.val[i] = PreUsers[k]
       /\ last.pre.kind \in {"absent", "empty"} => (last.ok /\ last.val = <<>>)

\* listUsers has returned two records, one of which has an email that fails
\* validation (it was saved through the Store)
C21_Witness ==
    /\ last.op = "list_users"
    /\ last.ok
    /\ Len(last.val) = 2
    /\ \E i \in DOMAIN last.val : validate_email(last.val[i].email) # ""
    /\ file = last.pre

\* C22: key consistency: starting from an empty or absent file, after any
\* sequence of Service and Store calls every entry of the stored mapping holds
\* a record whose email is the key of the entry, and a successful updateUser
\* leaves the key set as it was, the updated record under its own email and
\* every other entry unchanged.
C22_KeyEqualsEmail ==
    /\ NowReadable
    /\ \A k \in DOMAIN NowUsers : NowUsers[k].email = k
    /\ (last.op = "update_user" /\ last.ok)
          => /\ DOMAIN NowUsers = DOMAIN PreUsers
             /\ last.val = <<ArgUser>>
             /\ NowUsers[last.email] = ArgUser
             /\ OthersUnchanged

\* updateUser has replaced one of two stored records
C22_Witness ==
    /\ last.op = "update_user"
    /\ last.ok
    /\ Cardinality(DOMAIN NowUsers) = 2
    /\ PreUsers[last.email] # NowUsers[last.email]
    /\ NowUsers[last.email].email = last.email


Elements(s) == [x \in {s[i] : i \in DOMAIN s} |-> Cardinality({i \in DOMAIN s : s[i] = x})]

\* C24: used one call at a time with no I/O failure, the file-backed Store
\* behaves as an in-memory map from email to record: from an absent or
\* zero-byte file and an empty map, every save, find_by_email, find_all and
\* delete returns on the file what it returns on the map (for find_all the
\* same records, each in an order of its own), and after every step the
\* records read from the file are the map.
C24_FileStoreIsAMap ==
    /\ NowReadable
    /\ NowUsers = amap
    /\ last.op \in StoreOps
          => /\ last.ok = last.aok
             /\ last.existed = last.aexisted
             /\ IF last.op = "find_all"
                THEN Elements(last.val) = Elements(last.aval)
                ELSE last.val = last.aval

\* a delete of a stored email has returned true on the file and on the map,
\* which both keep the other record
C24_Witness ==
    /\ last.op = "delete"
    /\ last.existed /\ last.aexisted
    /\ Cardinality(DOMAIN last.apre) = 2
    /\ Cardinality(DOMAIN amap) = 1
    /\ NowUsers = amap

====
